---- MODULE Spec2Model ----
(***************************************************************************)
(* Timed finite automata (TimedAutomaton.py) and their zone automata       *)
(* (ZoneAutomaton.py).                                                     *)
(*                                                                         *)
(* Representation.                                                         *)
(*   - an interval is the 4-tuple <<lo, hi, lo_inc, hi_inc>> of the source *)
(*   - float('inf') is the number Inf, larger than every finite bound;     *)
(*     the arithmetic that touches it (inf + 1 = inf) is written out       *)
(*   - a Python set that the code iterates is a sequence without           *)
(*     duplicates: its elements in the iteration order of that run         *)
(*   - a Python string that the code inspects (an event, a label) is the   *)
(*     sequence of its characters                                          *)
(*   - a clock value is kept in half units (clock2 = 2 * clock), so that   *)
(*     the midpoint (lower + upper) / 2 of two integer bounds is exact     *)
(***************************************************************************)
EXTENDS Integers, Sequences, FiniteSets, TLC

VARIABLES
    events,          \* TFA: events
    transitions,     \* TFA: the transitions, in the iteration order of the set
    timing,          \* TFA: timing_function, transition -> interval
    reset,           \* TFA: reset_function, transition -> interval or None
    initial_states,  \* TFA: initial_states
    pc,              \* position in the pipeline
    zones,           \* compute_all_zones: zones, state -> set of bounds
    in_degree,       \* compute_all_zones: in_degree
    L,               \* compute_all_zones: the Kahn work list
    top_order,       \* compute_all_zones: top_order
    all_bounds,      \* the map returned by compute_all_zones
    za,              \* the current ZoneAutomaton
    nred,            \* number of reduce_states applications so far
    mapping,         \* reduce_states: mapping, as the set of its <<key, value>> pairs
    ci_bounds,       \* compute_intervals called on its own: the argument
    ci_intervals,    \* compute_intervals called on its own: the result
    call,            \* the arguments <<state, event, clock>> of the last call of
                     \* is_transition_enabled / get_next_state
    enabled,         \* the value returned by is_transition_enabled
    next_result,     \* the value returned by get_next_state
    current_state,   \* run: current_state
    clock,           \* run: clock
    event_sequence,  \* run: event_sequence
    run_pos,         \* run: the number of elements of event_sequence iterated
    result,          \* run: the value returned
    first_result,    \* <<bound map, zone automaton>> of an earlier construction
                     \* from the same TFA
    observer,        \* the observer automaton under construction
    obs_queue        \* observer construction: the queue of observer states

vars == <<events, transitions, timing, reset, initial_states, pc, zones,
          in_degree, L, top_order, all_bounds, za, nred, mapping, ci_bounds,
          ci_intervals, call, enabled, next_result, current_state, clock, event_sequence, run_pos,
          result, first_result, observer, obs_queue>>

tfaVars == <<events, transitions, timing, reset, initial_states>>
kahnVars == <<zones, in_degree, L, top_order>>
callVars == <<call, enabled, next_result>>
runVars == <<current_state, clock, event_sequence, run_pos, result>>
observerVars == <<observer, obs_queue>>
helperVars == <<mapping, ci_bounds, ci_intervals, callVars, runVars, first_result, observerVars>>

----------------------------------------------------------------------------
(* Bounds of the model *)

MaxBound == 2        \* finite interval endpoints range over 0..MaxBound
MaxSmall == 1        \* the same, where reduce_states is explored
MaxValue == 5        \* compute_intervals on its own: bounds range over 0..MaxValue
MaxReduce == 2       \* reduce_states is applied at most MaxReduce times

Inf == 1000          \* float('inf')
None == <<>>         \* Python None

States == {"x0", "x1", "x2"}

\* the events of the TFAs, where no other set is named
Events == {<<"a">>, <<"b">>}

----------------------------------------------------------------------------
(* Generic helpers *)

Range(s) == {s[i] : i \in DOMAIN s}

IsInjective(s) == \A i, j \in DOMAIN s : s[i] = s[j] => i = j

\* every iteration order of the set S
Orders(S) == {s \in [1..Cardinality(S) -> S] : Range(s) = S}

Min(S) == CHOOSE m \in S : \A n \in S : m <= n

RECURSIVE SortedSeq(_)
\* sorted(S) for a set of numbers
SortedSeq(S) == IF S = {} THEN <<>> ELSE <<Min(S)>> \o SortedSeq(S \ {Min(S)})

----------------------------------------------------------------------------
(* TimedFiniteAutomaton.compute_all_zones *)

\* zones[state].add(v) for every v of vs
AddBounds(z, state, vs) == [z EXCEPT ![state] = @ \cup vs]

\* LocalBoundsOf with the reset bounds added to the target q only
LocalBoundsOfTargetOnly(z, t) ==
    LET z1 == AddBounds(z, t[1], {timing[t][1], timing[t][2]})
    IN  IF reset[t] # None
        THEN AddBounds(z1, t[3], {reset[t][1], reset[t][2]})
        ELSE z1

\* the body of the loop of step 1, for one transition t
LocalBoundsOf(z, t) ==
    LET p == t[1]
        q == t[3]
        guard_interval == timing[t]
        reset_interval == reset[t]
        z1 == AddBounds(z, p, {guard_interval[1], guard_interval[2]})
    IN  IF reset_interval # None
        THEN AddBounds(AddBounds(z1, p, {reset_interval[1], reset_interval[2]}),
                       q, {reset_interval[1], reset_interval[2]})
        ELSE z1

RECURSIVE Step1(_, _)
\* step 1: the loop over self.transitions, from the zones z
Step1(z, ts) ==
    IF ts = <<>> THEN z ELSE Step1(LocalBoundsOf(z, Head(ts)), Tail(ts))

IsNoReset(t) == reset[t] = None

\* the transitions with no reset, in the iteration order of self.transitions
T_prime == SelectSeq(transitions, IsNoReset)

RECURSIVE InDegree(_, _)
InDegree(deg, ts) ==
    IF ts = <<>> THEN deg
    ELSE InDegree([deg EXCEPT ![Head(ts)[3]] = @ + 1], Tail(ts))

RECURSIVE KahnVisitEager(_, _, _, _)
\* KahnVisit that appends q before its in-degree has reached 0
KahnVisitEager(p, deg, work, ts) ==
    IF ts = <<>> THEN <<deg, work>>
    ELSE LET t == Head(ts)
             q == t[3]
         IN  IF t[1] = p
             THEN LET deg1 == [deg EXCEPT ![q] = @ - 1]
                  IN  KahnVisitEager(p, deg1,
                                     IF deg1[q] >= 0 THEN Append(work, q) ELSE work,
                                     Tail(ts))
             ELSE KahnVisitEager(p, deg, work, Tail(ts))

RECURSIVE KahnVisit(_, _, _, _)
\* the inner loop of Kahn's algorithm for the popped state p:
\* the pair <<in_degree, L>> after it
KahnVisit(p, deg, work, ts) ==
    IF ts = <<>> THEN <<deg, work>>
    ELSE LET t == Head(ts)
             q == t[3]
         IN  IF t[1] = p
             THEN LET deg1 == [deg EXCEPT ![q] = @ - 1]
                  IN  KahnVisit(p, deg1,
                                IF deg1[q] = 0 THEN Append(work, q) ELSE work,
                                Tail(ts))
             ELSE KahnVisit(p, deg, work, Tail(ts))

RECURSIVE PropagateFrom(_, _, _)
\* zones[q].update(zones[p]) for every transition of ts that leaves p
PropagateFrom(p, z, ts) ==
    IF ts = <<>> THEN z
    ELSE LET t == Head(ts)
         IN  PropagateFrom(p,
                           IF t[1] = p THEN AddBounds(z, t[3], z[p]) ELSE z,
                           Tail(ts))

RECURSIVE PropagateAllReversed(_, _)
\* PropagateAll that walks top_order from its end
PropagateAllReversed(z, order) ==
    IF order = <<>> THEN z
    ELSE PropagateFrom(Head(order), PropagateAllReversed(z, Tail(order)), T_prime)

RECURSIVE PropagateSeq(_, _)
PropagateSeq(z, order) ==
    IF order = <<>> THEN z
    ELSE PropagateSeq(PropagateFrom(Head(order), z, T_prime), Tail(order))

\* PropagateAll that goes on with the states that are not in top_order
PropagateAllStates(z, order) ==
    PropagateSeq(z, order \o (CHOOSE s \in Orders(States \ Range(order)) : TRUE))

RECURSIVE PropagateAll(_, _)
\* the propagation loop over top_order
PropagateAll(z, order) ==
    IF order = <<>> THEN z
    ELSE PropagateAll(PropagateFrom(Head(order), z, T_prime), Tail(order))

\* ordered_zones
OrderedZones(z) == [state \in States |-> SortedSeq(z[state])]

----------------------------------------------------------------------------
(* TimedFiniteAutomaton: guards and successors *)

\* _is_within_interval, for a clock value in half units
IsWithinInterval(clock2, interval) ==
    LET lower == interval[1]
        upper == interval[2]
        lower_ok == IF interval[3] THEN clock2 >= 2 * lower ELSE clock2 > 2 * lower
        upper_ok == IF interval[4] THEN clock2 <= 2 * upper ELSE clock2 < 2 * upper
    IN  lower_ok /\ upper_ok

RECURSIVE FirstEnabled(_, _, _, _)
\* the first transition of ts that leaves state on event and whose guard
\* holds the clock value, or None
FirstEnabled(state, event, clock2, ts) ==
    IF ts = <<>> THEN None
    ELSE LET t == Head(ts)
         IN  IF t[1] = state /\ t[2] = event /\ IsWithinInterval(clock2, timing[t])
             THEN t
             ELSE FirstEnabled(state, event, clock2, Tail(ts))

\* is_transition_enabled, for a clock value in half units
IsTransitionEnabled(state, event, clock2) ==
    \E i \in DOMAIN transitions :
        /\ transitions[i][1] = state
        /\ transitions[i][2] = event
        /\ IsWithinInterval(clock2, timing[transitions[i]])

\* GetNextState that takes the upper limit of the reset interval
GetNextStateResetUpper(state, event, clock2) ==
    LET t == FirstEnabled(state, event, clock2, transitions)
    IN  IF t = None THEN None
        ELSE IF reset[t] # None THEN <<t[3], 2 * reset[t][2]>>
        ELSE <<t[3], clock2>>

\* get_next_state: <<next state, updated clock in half units>> or None
GetNextState(state, event, clock2) ==
    LET t == FirstEnabled(state, event, clock2, transitions)
    IN  IF t = None THEN None
        ELSE IF reset[t] # None THEN <<t[3], 2 * reset[t][1]>>
        ELSE <<t[3], clock2>>

----------------------------------------------------------------------------
(* ZoneAutomaton.from_timed_automaton *)

Digit == <<"0", "1", "2", "3", "4", "5", "6", "7", "8", "9">>

RECURSIVE Decimal(_)
\* the decimal digits of a natural number
Decimal(n) == IF n < 10 THEN <<Digit[n + 1]>>
              ELSE Decimal(n \div 10) \o <<Digit[(n % 10) + 1]>>

\* f"{b}" for a bound b
Str(b) == IF b = Inf THEN <<"i", "n", "f">> ELSE Decimal(b)

RECURSIVE IntervalsFrom(_, _)
\* the loop of compute_intervals from index i on
IntervalsFrom(bounds, i) ==
    IF i > Len(bounds) - 1 THEN <<>>
    ELSE <<  <<bounds[i], bounds[i + 1], FALSE, FALSE>>,
             <<bounds[i + 1], bounds[i + 1], TRUE, TRUE>>  >>
         \o IntervalsFrom(bounds, i + 1)

\* ComputeIntervals without the degenerate interval at the first bound
ComputeIntervalsNoFirst(bounds) ==
    IF bounds = <<>> THEN <<>>
    ELSE IntervalsFrom(bounds, 1)
         \o <<  <<bounds[Len(bounds)], Inf, FALSE, FALSE>>  >>

\* compute_intervals
ComputeIntervals(bounds) ==
    IF bounds = <<>> THEN <<>>
    ELSE <<  <<bounds[1], bounds[1], TRUE, TRUE>>  >>
         \o IntervalsFrom(bounds, 1)
         \o <<  <<bounds[Len(bounds)], Inf, FALSE, FALSE>>  >>

\* TimeEventLabel without the '+' of a degenerate zone
TimeEventLabelNoPlus(current_zone, next_zone) == Str(current_zone[2])

\* time_event_label
TimeEventLabel(current_zone, next_zone) ==
    IF current_zone[1] = current_zone[2] /\ current_zone[3] /\ current_zone[4]
    THEN Str(current_zone[2]) \o <<"+">>
    ELSE Str(current_zone[2])

\* the representative time of a zone, in half units
RepTime2(zone) ==
    LET lower == zone[1]
        upper == zone[2]
    IN  IF upper = Inf
        THEN (IF lower = Inf THEN 2 * Inf ELSE 2 * lower + 2)
        ELSE IF lower = upper THEN 2 * lower
        ELSE lower + upper

\* extended_states_for_state, from the zone_intervals zi of the state
ExtendedStatesFor(state, zi) == [i \in DOMAIN zi |-> <<state, zi[i]>>]

\* the temporal transitions added for a state
TimeTransitions(state, zi) ==
    {<<  <<state, zi[i]>>, TimeEventLabel(zi[i], zi[i + 1]), <<state, zi[i + 1]>>  >> :
        i \in 1..(Len(zi) - 1)}

\* the destination of the event transition from <<state, zone>>, given the
\* result of get_next_state
EventDestination(state, zone, event, next_state_zone) ==
    LET next_state == next_state_zone[1]
        reset_interval == reset[<<state, event, next_state>>]
    IN  IF reset_interval # None
        THEN <<next_state, <<reset_interval[1], reset_interval[1], TRUE, TRUE>> >>
        ELSE <<next_state, zone>>

\* the event transitions added for the extended state <<state, zone>>
EventTransitionsOf(state, zone) ==
    UNION {LET next_state_zone == GetNextState(state, event, RepTime2(zone))
           IN  IF next_state_zone # None
               THEN {<<  <<state, zone>>, event,
                         EventDestination(state, zone, event, next_state_zone)  >>}
               ELSE {} :
           event \in events}

\* the event transitions added for a state
EventTransitions(state, zi) ==
    UNION {EventTransitionsOf(state, zi[i]) : i \in DOMAIN zi}

\* ZoneAutomaton.__init__ (self.transitions is kept as the set it lists:
\* no method depends on the order of the list)
ZoneAutomaton(states, evts, trans, initial) ==
    [states |-> states,
     events |-> evts \cup {Str(v[2][2]) : v \in states}
                       \cup {Str(v[2][2]) \o <<"+">> : v \in states},
     transitions |-> trans,
     initial_states |-> initial]

\* what the loop body of from_timed_automaton adds for one state:
\* <<extended states, temporal transitions, event transitions, initial states>>
StateContribution(bnds, state) ==
    LET zi == ComputeIntervals(bnds[state])
    IN  IF bnds[state] = <<>> THEN <<{}, {}, {}, {}>>
        ELSE <<Range(ExtendedStatesFor(state, zi)),
               TimeTransitions(state, zi),
               EventTransitions(state, zi),
               IF state \in initial_states THEN {ExtendedStatesFor(state, zi)[1]} ELSE {}>>

\* from_timed_automaton, for the bound map bnds
FromTimedAutomaton(bnds) ==
    LET parts == {StateContribution(bnds, state) : state \in States}
        event_transitions == UNION {c[3] : c \in parts}
        time_transitions == UNION {c[2] : c \in parts}
    IN  ZoneAutomaton(
            UNION {c[1] : c \in parts} \cup {t[3] : t \in event_transitions},
            events \cup {t[2] : t \in time_transitions},
            time_transitions \cup event_transitions,
            UNION {c[4] : c \in parts})

----------------------------------------------------------------------------
(* ZoneAutomaton.reduce_states *)

IsDigitStr(str) == str # <<>> /\ \A i \in DOMAIN str : str[i] \in Range(Digit)

\* is_timed_label
IsTimedLabel(label) ==
    \/ IsDigitStr(label)
    \/ /\ label # <<>>
       /\ label[Len(label)] = "+"
       /\ IsDigitStr(SubSeq(label, 1, Len(label) - 1))

\* union_intervals
UnionIntervals(i1, i2) == <<i1[1], i2[2], i1[3], i2[4]>>

\* get_non_timed_outgoing
GetNonTimedOutgoing(ext_state, trans) ==
    {<<t[2], t[3]>> : t \in {u \in trans : u[1] = ext_state /\ ~IsTimedLabel(u[2])}}

\* get_non_timed_incoming
GetNonTimedIncoming(ext_state, trans) ==
    {<<t[1], t[2]>> : t \in {u \in trans : u[3] = ext_state /\ ~IsTimedLabel(u[2])}}

\* can_merge, in the zone automaton A
CanMerge(A, s1, s2) ==
    LET nt_in1 == GetNonTimedIncoming(s1, A.transitions)
        nt_in2 == GetNonTimedIncoming(s2, A.transitions)
        nt_out1 == GetNonTimedOutgoing(s1, A.transitions)
        nt_out2 == GetNonTimedOutgoing(s2, A.transitions)
        i1 == s1[2]
        i2 == s2[2]
    IN  /\ s1[1] = s2[1]
        /\ \E t \in A.transitions : t[1] = s1 /\ t[3] = s2 /\ IsTimedLabel(t[2])
        /\ ~(nt_in1 # {} /\ nt_in1 # nt_in2)
        /\ ~(nt_out1 # {} /\ nt_out1 # nt_out2)
        /\ i1[2] = i2[1]
        /\ i1[4]

RECURSIVE MergedGroup(_, _, _)
\* merged_group after the loop over the rest of state_list
MergedGroup(A, merged_group, state_list) ==
    IF state_list = <<>> THEN merged_group
    ELSE LET s == Head(state_list)
             n == Len(merged_group)
         IN  IF n > 0 /\ CanMerge(A, merged_group[n], s)
             THEN MergedGroup(A,
                      [merged_group EXCEPT
                          ![n] = <<s[1], UnionIntervals(merged_group[n][2], s[2])>>],
                      Tail(state_list))
             ELSE MergedGroup(A, Append(merged_group, s), Tail(state_list))

\* the test of the mapping loop: the merged state m covers old_state
Covers(m, old_state) == m[2][1] <= old_state[2][1] /\ m[2][2] >= old_state[2][2]

\* mapping[old_state]: the first merged state that covers it, else itself
MappingOf(merged_group, old_state) ==
    LET hits == {i \in DOMAIN merged_group : Covers(merged_group[i], old_state)}
    IN  IF hits = {} THEN old_state ELSE merged_group[Min(hits)]

\* min(merged_group, key=lambda s: s[1][0]): the first of the smallest
MinByLower(merged_group) ==
    merged_group[Min({i \in DOMAIN merged_group :
                        \A j \in DOMAIN merged_group :
                            merged_group[i][2][1] <= merged_group[j][2][1]})]

\* _discrete_initial_states
DiscreteInitialStates(A) == {v[1] : v \in A.initial_states}

\* the extended states of A with the discrete state x
GroupOf(A, x) == {v \in A.states : v[1] = x}

RECURSIVE StateLists(_)
\* every state_list the stable sort by lower bound can give for the group S:
\* the states in ascending order of the lower bound, those of equal lower
\* bound in the iteration order of the set
StateLists(S) ==
    IF S = {} THEN {<<>>}
    ELSE LET m == Min({v[2][1] : v \in S})
             C == {v \in S : v[2][1] = m}
         IN  {first \o rest : first \in Orders(C), rest \in StateLists(S \ C)}

\* the body of the loop over the groups, for the state_list l of one discrete
\* state: <<the merged states, the pairs of mapping, the initial candidate>>
ReduceGroup(A, l) ==
    LET merged_group == MergedGroup(A, <<>>, l)
    IN  <<Range(merged_group),
          {<<l[i], MappingOf(merged_group, l[i])>> : i \in DOMAIN l},
          MinByLower(merged_group)>>

\* the results of the loop body for a group, over its possible state_lists
GroupResults(A, x) == {ReduceGroup(A, l) : l \in StateLists(GroupOf(A, x))}

\* the discrete states that have extended states: the keys of groups
GroupKeys(A) == {v[1] : v \in A.states}

\* the dictionary mapping after the loop over the groups
ReduceMapping(results) == UNION {r[2][2] : r \in results}

\* reduce_states on A, where results holds the result of the loop body for
\* each group
ReduceStates(A, results) ==
    LET pairs == ReduceMapping(results)
        Map(v) == IF \E m \in pairs : m[1] = v
                  THEN (CHOOSE m \in pairs : m[1] = v)[2]
                  ELSE v
        new_transitions == {<<Map(t[1]), t[2], Map(t[3])>> : t \in A.transitions}
    IN  ZoneAutomaton(
            UNION {r[2][1] : r \in results},
            {t[2] : t \in new_transitions},
            new_transitions,
            {r[2][3] : r \in {u \in results : u[1] \in DiscreteInitialStates(A)}})

RECURSIVE ResultChoices(_, _)
\* the sets {<<x, result of the loop body for x>> : x in xs}, over the
\* iteration orders of self.states
ResultChoices(A, xs) ==
    IF xs = {} THEN {{}}
    ELSE LET x == CHOOSE y \in xs : TRUE
         IN  {{<<x, r>>} \cup rest : r \in GroupResults(A, x),
                                     rest \in ResultChoices(A, xs \ {x})}

----------------------------------------------------------------------------
(* The inputs: the timed finite automata of the model *)

\* the closed guards with endpoints up to MaxBound, and [0, +inf)
Guards == {<<lo, hi, TRUE, TRUE>> : <<lo, hi>> \in {b \in (0..MaxBound) \X (0..MaxBound) : b[1] <= b[2]}}
          \cup {<<0, Inf, TRUE, FALSE>>}

\* the guards [b, b]
PointGuards == {<<b, b, TRUE, TRUE>> : b \in 0..MaxBound}

\* no reset, or a reset interval
Resets == {None, <<0, 1, TRUE, TRUE>>}

AllTransitions == States \X Events \X States

\* the transitions on the event a
ATransitions == States \X {<<"a">>} \X States

\* the sets of at most two transitions of T
UpToTwo(T) == {{}} \cup {{t, u} : <<t, u>> \in T \X T}

\* the sets of three transitions of T
Three(T) == {U \in {{t[1], t[2], t[3]} : t \in T \X T \X T} : Cardinality(U) = 3}

\* the sets of TS, each in every iteration order
TransitionOrders(TS) == UNION {Orders(T) : T \in TS}

Unset == <<>>

\* the state after the construction of a TFA with transitions among TS,
\* guards among GS, resets among RS and initial states among IS
Constructed(TS, GS, RS, IS) ==
    /\ events = Events
    /\ transitions \in TransitionOrders(TS)
    /\ timing \in [Range(transitions) -> GS]
    /\ reset \in [Range(transitions) -> RS]
    /\ initial_states \in IS

\* no method of the TFA has been called yet
NoCall ==
    /\ call = Unset
    /\ enabled = Unset
    /\ next_result = Unset
    /\ current_state = Unset
    /\ clock = Unset
    /\ event_sequence = Unset
    /\ run_pos = 0
    /\ result = Unset
    /\ first_result = Unset
    /\ observer = Unset
    /\ obs_queue = Unset

\* a constructed TFA, before compute_all_zones
InitWith(TS, GS, RS, IS) ==
    /\ Constructed(TS, GS, RS, IS)
    /\ NoCall
    /\ pc = "start"
    /\ zones = [state \in States |-> {}]
    /\ in_degree = [state \in States |-> 0]
    /\ L = <<>>
    /\ top_order = <<>>
    /\ all_bounds = Unset
    /\ za = Unset
    /\ nred = 0
    /\ mapping = Unset
    /\ ci_bounds = Unset
    /\ ci_intervals = Unset

\* the guards [b, b] with b up to MaxSmall
SmallPointGuards == {g \in PointGuards : g[2] <= MaxSmall}

Init == InitWith(UpToTwo(ATransitions), SmallPointGuards, Resets, {{"x0"}})

\* the transitions on a, and the transitions on b that leave x0
ZoneTransitions == ATransitions \cup ({"x0"} \X {<<"b">>} \X States)

InitZone == InitWith(UpToTwo(ZoneTransitions), Guards, Resets, {{"x0"}})

\* the sorted lists of distinct bounds among 0..MaxValue and +inf
BoundLists == {SortedSeq(S) : S \in SUBSET ((0..MaxValue) \cup {Inf})}

\* before a call of compute_intervals on a sorted list of bounds
InitIntervals ==
    /\ ci_bounds \in BoundLists
    /\ ci_intervals = Unset
    /\ NoCall
    /\ pc = "intervals"
    /\ events = {}
    /\ transitions = <<>>
    /\ timing = <<>>
    /\ reset = <<>>
    /\ initial_states = {}
    /\ zones = [state \in States |-> {}]
    /\ in_degree = [state \in States |-> 0]
    /\ L = <<>>
    /\ top_order = <<>>
    /\ all_bounds = Unset
    /\ za = Unset
    /\ nred = 0
    /\ mapping = Unset

InitBounds ==
    \/ InitWith(UpToTwo(AllTransitions), Guards, Resets, {{"x0"}})
    \/ InitWith(Three(ATransitions), SmallPointGuards, Resets, {{"x0"}, {"x0", "x1"}})

----------------------------------------------------------------------------
(* The steps *)

\* compute_all_zones, step 1: the guard and reset bounds
LocalBounds ==
    /\ pc = "start"
    /\ zones' = Step1([state \in States |-> {}], transitions)
    /\ pc' = "indegree"
    /\ UNCHANGED <<tfaVars, in_degree, L, top_order, all_bounds, za, nred, helperVars>>

\* compute_all_zones, step 2: the in-degrees and the initial work list
KahnInit ==
    /\ pc = "indegree"
    /\ in_degree' = InDegree([state \in States |-> 0], T_prime)
    /\ L' \in Orders({state \in States : in_degree'[state] = 0})
    /\ top_order' = <<>>
    /\ pc' = "kahn"
    /\ UNCHANGED <<tfaVars, zones, all_bounds, za, nred, helperVars>>

\* one iteration of the while loop of Kahn's algorithm
KahnStep ==
    /\ pc = "kahn"
    /\ L # <<>>
    /\ LET p == Head(L)
           r == KahnVisit(p, in_degree, Tail(L), T_prime)
       IN  /\ top_order' = Append(top_order, p)
           /\ in_degree' = r[1]
           /\ L' = r[2]
    /\ UNCHANGED <<tfaVars, pc, zones, all_bounds, za, nred, helperVars>>

\* the propagation loop and the return of compute_all_zones
Propagate ==
    /\ pc = "kahn"
    /\ L = <<>>
    /\ zones' = PropagateAll(zones, top_order)
    /\ all_bounds' = OrderedZones(zones')
    /\ pc' = "bounds"
    /\ UNCHANGED <<tfaVars, in_degree, L, top_order, za, nred, helperVars>>

\* ZoneAutomaton.from_timed_automaton, after its call of compute_all_zones
BuildZoneAutomaton ==
    /\ pc = "bounds"
    /\ za' = FromTimedAutomaton(all_bounds)
    /\ pc' = "zone"
    /\ UNCHANGED <<tfaVars, kahnVars, all_bounds, nred, helperVars>>

\* reduce_states on the current zone automaton
Reduce ==
    /\ pc = "zone"
    /\ nred < MaxReduce
    /\ \E results \in ResultChoices(za, GroupKeys(za)) :
           /\ za' = ReduceStates(za, results)
           /\ mapping' = ReduceMapping(results)
    /\ nred' = nred + 1
    /\ UNCHANGED <<tfaVars, kahnVars, pc, all_bounds, ci_bounds, ci_intervals,
                   callVars, runVars, first_result, observerVars>>

\* a call of the helper compute_intervals
CallComputeIntervals ==
    /\ pc = "intervals"
    /\ ci_intervals' = ComputeIntervals(ci_bounds)
    /\ pc' = "intervals_done"
    /\ UNCHANGED <<tfaVars, kahnVars, all_bounds, za, nred, mapping, ci_bounds, first_result, observerVars, callVars, runVars>>

Next ==
    \/ LocalBounds
    \/ KahnInit
    \/ KahnStep
    \/ Propagate
    \/ BuildZoneAutomaton
    \/ Reduce

Spec == Init /\ [][Next]_vars

NextZone ==
    \/ LocalBounds
    \/ KahnInit
    \/ KahnStep
    \/ Propagate
    \/ BuildZoneAutomaton

SpecZone == InitZone /\ [][NextZone]_vars

NextBounds ==
    \/ LocalBounds
    \/ KahnInit
    \/ KahnStep
    \/ Propagate

SpecBounds == InitBounds /\ [][NextBounds]_vars

SpecIntervals == InitIntervals /\ [][CallComputeIntervals]_vars

----------------------------------------------------------------------------
(* compute_intervals on its own *)

\* C2's case: a list of n >= 1 finite bounds (the lists are strictly ascending)
C2_FiniteBounds ==
    ci_bounds # <<>> /\ \A i \in DOMAIN ci_bounds : ci_bounds[i] # Inf

\* C2: for every strictly ascending list of n >= 1 finite bounds
\* b_0 < ... < b_{n-1}, compute_intervals returns exactly the 2n intervals
\* [b_0,b_0], (b_0,b_1), [b_1,b_1], ..., [b_{n-1},b_{n-1}], (b_{n-1},+inf) in
\* this order, and every clock value c >= b_0 is in exactly one of them.
C2_Tiling ==
    (pc = "intervals_done" /\ C2_FiniteBounds) =>
        LET n == Len(ci_bounds)
        IN  /\ Len(ci_intervals) = 2 * n
            /\ \A i \in 1..n :
                /\ ci_intervals[2 * i - 1] = <<ci_bounds[i], ci_bounds[i], TRUE, TRUE>>
                /\ ci_intervals[2 * i] =
                       <<ci_bounds[i], IF i < n THEN ci_bounds[i + 1] ELSE Inf, FALSE, FALSE>>
            /\ \A clock2 \in (2 * ci_bounds[1])..(2 * MaxValue + 2) :
                Cardinality({k \in DOMAIN ci_intervals :
                                IsWithinInterval(clock2, ci_intervals[k])}) = 1

\* the bounds {0, 1, 5} have been enumerated
C2_Witness ==
    /\ pc = "intervals_done"
    /\ ci_bounds = <<0, 1, 5>>
    /\ ci_intervals = <<  <<0, 0, TRUE, TRUE>>, <<0, 1, FALSE, FALSE>>,
                          <<1, 1, TRUE, TRUE>>, <<1, 5, FALSE, FALSE>>,
                          <<5, 5, TRUE, TRUE>>, <<5, Inf, FALSE, FALSE>>  >>

----------------------------------------------------------------------------
(* The zone automaton of from_timed_automaton *)

\* the zones of the extended states of the discrete state x
ZonesOf(A, x) == {v[2] : v \in GroupOf(A, x)}

\* the TFA resets no clock and every guard is [0, +inf)
C1_Unguarded ==
    \A t \in Range(transitions) :
        reset[t] = None /\ timing[t] = <<0, Inf, TRUE, FALSE>>

\* C1: +inf is discarded from a bound list before zone enumeration: no
\* extended state has a zone whose lower endpoint is +inf, and for a TFA with
\* no resets whose guards are all [0, +inf), every discrete state that gets
\* extended states gets exactly the zones [0,0] and (0, +inf).
C1_InfinityStripped ==
    (pc = "zone" /\ nred = 0) =>
        /\ \A v \in za.states : v[2][1] # Inf
        /\ C1_Unguarded =>
               \A x \in States :
                   GroupOf(za, x) # {} =>
                       ZonesOf(za, x) = {<<0, 0, TRUE, TRUE>>, <<0, Inf, FALSE, FALSE>>}

\* the labels of the logical events are those of the TFA; every other label
\* of the zone automaton was added by a time-advance edge
IsTimeAdvance(t) == t[2] \notin Events

\* the clock values, in half units, that tell the zones of the model apart
ClockValues2 == (0..(2 * MaxBound + 2)) \cup {2 * Inf}

\* two zones share no clock value
DisjointZones(z1, z2) ==
    \A clock2 \in ClockValues2 :
        ~(IsWithinInterval(clock2, z1) /\ IsWithinInterval(clock2, z2))

\* the zone of w lies immediately above the zone of v among the states G
ImmediatelyAbove(G, v, w) ==
    /\ v[2][2] <= w[2][1]
    /\ \A u \in G \ {v, w} : ~(v[2][2] <= u[2][1] /\ u[2][2] <= w[2][1])

\* the time-advance edges of A that leave v
TimeEdgesFrom(A, v) == {t \in A.transitions : IsTimeAdvance(t) /\ t[1] = v}

\* the time-advance edges of A that enter v
TimeEdgesInto(A, v) == {t \in A.transitions : IsTimeAdvance(t) /\ t[3] = v}

\* the time-advance edges of A make one chain of the extended states G, each
\* state but the last leading to the state immediately above it
IsChain(A, G) ==
    /\ \A v \in G : Cardinality(TimeEdgesFrom(A, v)) <= 1
    /\ \A v \in G : Cardinality(TimeEdgesInto(A, v)) <= 1
    /\ G # {} => Cardinality({v \in G : TimeEdgesFrom(A, v) = {}}) = 1
    /\ \A v \in G : \A t \in TimeEdgesFrom(A, v) :
           t[3] \in G /\ ImmediatelyAbove(G, v, t[3])

\* C3: in the zone automaton of from_timed_automaton, for every discrete
\* state x the time-advance edges totally order all the extended states
\* (x, Z) of V, those added as destinations of event edges included: one chain
\* in which each state but the last has exactly one time-advance edge, to the
\* state immediately above, and distinct states of x have disjoint zones.
C3_TimeChain ==
    (pc = "zone" /\ nred = 0) =>
        \A x \in States :
            /\ IsChain(za, GroupOf(za, x))
            /\ \A v, w \in GroupOf(za, x) : v # w => DisjointZones(v[2], w[2])

\* the enumerated zones of the discrete state x
EnumeratedZones(x) == ComputeIntervals(all_bounds[x])

\* the label the claim C5 gives to the time-advance edge that leaves zone
ExpectedLabel(zone) ==
    IF zone[1] = zone[2] /\ zone[3] /\ zone[4]
    THEN Str(zone[2]) \o <<"+">>
    ELSE Str(zone[2])

\* C5: for each pair of consecutive enumerated zones Z_i, Z_{i+1} of a
\* discrete state x there is exactly one time-advance edge
\* (x,Z_i) -> (x,Z_{i+1}), labelled with the string of hi(Z_i), followed by
\* '+' when Z_i is degenerate; there is no other time-advance edge.
C5_TimeAdvanceEdges ==
    (pc = "zone" /\ nred = 0) =>
        LET time_edges == {t \in za.transitions : IsTimeAdvance(t)}
        IN  \A x \in States :
                LET zi == EnumeratedZones(x)
                IN  /\ \A i \in 1..(Len(zi) - 1) :
                           {t[2] : t \in {u \in time_edges :
                                             /\ u[1] = <<x, zi[i]>>
                                             /\ u[3] = <<x, zi[i + 1]>>}}
                               = {ExpectedLabel(zi[i])}
                    /\ \A t \in time_edges :
                           t[1][1] = x =>
                               /\ t[3][1] = x
                               /\ \E i \in 1..(Len(zi) - 1) :
                                      t[1][2] = zi[i] /\ t[3][2] = zi[i + 1]

\* a zone automaton with the edges [1,1] -1+-> (1,2) and (1,2) -2-> [2,2]
C5_Witness ==
    /\ pc = "zone"
    /\ nred = 0
    /\ mapping = Unset
    /\ \E x \in States :
           /\ <<  <<x, <<1, 1, TRUE, TRUE>> >>, <<"1", "+">>,
                  <<x, <<1, 2, FALSE, FALSE>> >>  >> \in za.transitions
           /\ <<  <<x, <<1, 2, FALSE, FALSE>> >>, <<"2">>,
                  <<x, <<2, 2, TRUE, TRUE>> >>  >> \in za.transitions

----------------------------------------------------------------------------
(* The zone automaton after reduce_states *)

\* the edges of A that leave v with the label e
EdgesOn(A, v, e) == {t \in A.transitions : t[1] = v /\ t[2] = e}

\* C4: in every zone automaton produced by from_timed_automaton, and in every
\* automaton obtained from it by any number of reduce_states applications,
\* each extended state has, for each logical event e, at most one outgoing
\* edge labelled e.
C4_EventDeterminism ==
    pc = "zone" =>
        \A v \in za.states : \A e \in Events : Cardinality(EdgesOn(za, v, e)) <= 1

----------------------------------------------------------------------------
(* The bound map of compute_all_zones *)

\* the bounds of the state x in the returned map
BoundsOf(x) == Range(all_bounds[x])

\* the two endpoints of an interval
Endpoints(interval) == {interval[1], interval[2]}

\* the transitions that reset the clock
Resetting == {t \in Range(transitions) : reset[t] # None}

\* the graph of the transitions that do not reset the clock
NoResetEdges == {<<t[1], t[3]>> : t \in Range(transitions) \ Resetting}

\* the states one edge of NoResetEdges after a state of S
Successors(S) == {e[2] : e \in {d \in NoResetEdges : d[1] \in S}}

RECURSIVE Closure(_, _)
Closure(S, n) == IF n = 0 THEN S ELSE Closure(S \cup Successors(S), n - 1)

\* the states reachable from p along one or more non-resetting transitions
ReachableFrom(p) == Closure(Successors({p}), Cardinality(States))

\* the graph of the non-resetting transitions has no cycle
Acyclic == \A p \in States : p \notin ReachableFrom(p)

\* the states Kahn's algorithm has processed
Processed == Range(top_order)

\* C6: the bound map returned by compute_all_zones contains 0 in bounds(x)
\* for every initial state x, whatever the transitions that touch x.
C6_InitialZero ==
    pc = "bounds" => \A x \in initial_states : 0 \in BoundsOf(x)

\* the value v is in bounds(p) by a rule other than the reset of a transition
\* that leaves p: a guard endpoint of a transition leaving p, a reset endpoint
\* of a transition entering p, or propagation from a processed predecessor
JustifiedAtSource(p, v) ==
    \/ \E u \in Range(transitions) : u[1] = p /\ v \in Endpoints(timing[u])
    \/ \E u \in Resetting : u[3] = p /\ v \in Endpoints(reset[u])
    \/ \E u \in Range(transitions) \ Resetting :
           u[3] = p /\ u[1] \in Processed /\ v \in BoundsOf(u[1])

\* C7 as claimed: the endpoints of the reset of a transition (p, e, q) with
\* p # q are added to bounds(q) only; they are in bounds(p) only if another
\* rule puts them there.
C7_ResetAtTargetOnly ==
    pc = "bounds" =>
        \A t \in Resetting :
            t[1] # t[3] =>
                \A v \in Endpoints(reset[t]) :
                    v \in BoundsOf(t[1]) => JustifiedAtSource(t[1], v)

\* C7 as amended: the endpoints of the reset of a transition (p, e, q) are
\* in bounds(p) and in bounds(q).
C7_ResetAtBothEnds ==
    pc = "bounds" =>
        \A t \in Resetting :
            /\ Endpoints(reset[t]) \subseteq BoundsOf(t[1])
            /\ Endpoints(reset[t]) \subseteq BoundsOf(t[3])

\* a reset endpoint that no other rule puts in the bounds of the source
C7_Witness ==
    /\ pc = "bounds"
    /\ \E t \in Resetting :
           /\ t[1] # t[3]
           /\ \E v \in Endpoints(reset[t]) :
                  v \in BoundsOf(t[1]) /\ ~JustifiedAtSource(t[1], v)

\* C8: when the graph of non-resetting transitions is acyclic, every bound
\* of a state is a bound of all the states reachable from it along
\* non-resetting transitions, in every order Kahn's algorithm can take.
C8_Propagation ==
    (pc = "bounds" /\ Acyclic) =>
        \A p \in States : \A q \in ReachableFrom(p) : BoundsOf(p) \subseteq BoundsOf(q)

\* the bounds step 1 adds to the state x
LocalRule(x) ==
    UNION {Endpoints(timing[t]) : t \in {u \in Range(transitions) : u[1] = x}}
    \cup UNION {Endpoints(reset[t]) : t \in {u \in Resetting : u[1] = x \/ u[3] = x}}

\* a bound has travelled two non-resetting transitions
C8_Witness ==
    /\ pc = "bounds"
    /\ Acyclic
    /\ \E p, q, r \in States :
           /\ <<p, q>> \in NoResetEdges
           /\ <<q, r>> \in NoResetEdges
           /\ <<p, r>> \notin NoResetEdges
           /\ \E v \in BoundsOf(p) : v \notin LocalRule(q) \cup LocalRule(r)

\* C10 as claimed: when the non-resetting transitions contain a cycle, every
\* state Kahn's algorithm leaves unprocessed ends with exactly its
\* locally-added bounds of step 1.
C10_UnprocessedLocalOnly ==
    (pc = "bounds" /\ ~Acyclic) =>
        \A x \in States \ Processed : BoundsOf(x) = LocalRule(x)

\* the processed states with a non-resetting transition into x
ProcessedPredecessors(x) == {p \in Processed : <<p, x>> \in NoResetEdges}

\* C10 as amended: a state Kahn's algorithm leaves unprocessed ends with its
\* locally-added bounds of step 1 and the bounds of its processed
\* predecessors; no bound of an unprocessed state is propagated.
C10_UnprocessedFromProcessed ==
    (pc = "bounds" /\ ~Acyclic) =>
        \A x \in States \ Processed :
            BoundsOf(x) = LocalRule(x) \cup UNION {BoundsOf(p) : p \in ProcessedPredecessors(x)}

\* an unprocessed state with a bound of a processed predecessor, and an
\* unprocessed predecessor whose bounds it did not get
C10_Witness ==
    /\ pc = "bounds"
    /\ \E x \in States \ Processed :
           /\ \E p \in ProcessedPredecessors(x) : ~(BoundsOf(p) \subseteq LocalRule(x))
           /\ \E u \in States \ Processed :
                  <<u, x>> \in NoResetEdges /\ ~(BoundsOf(u) \subseteq BoundsOf(x))

\* the TFAs of up to three transitions on a, with the guards [b, b]
InitKahn ==
    InitWith(UpToTwo(ATransitions) \cup Three(ATransitions), SmallPointGuards,
             Resets, {{"x0"}})

\* compute_all_zones is straight-line code around its loops: a step that can
\* be taken is taken
FairSpecKahn == InitKahn /\ [][NextBounds]_vars /\ WF_vars(NextBounds)

\* C9: compute_all_zones terminates on every finite TFA, also when the
\* non-resetting transitions contain a cycle or a self-loop: the work list
\* becomes empty and the map is returned, each state is appended to the
\* topological order at most once, and the map has an entry for every state.
C9_Terminates ==
    /\ <>(pc = "bounds" /\ L = <<>>)
    /\ [](IsInjective(top_order))
    /\ [](pc = "bounds" => DOMAIN all_bounds = States)

\* compute_all_zones has returned for a TFA whose non-resetting transitions
\* contain a cycle, with states left unprocessed
C9_Witness ==
    /\ pc = "bounds"
    /\ ~Acyclic
    /\ Processed # States
    /\ \E x \in States : <<x, x>> \in NoResetEdges

----------------------------------------------------------------------------
(* is_transition_enabled and get_next_state called on their own *)

\* the intervals with endpoints up to MaxSmall or +inf, open or closed at
\* each finite end
QueryGuards ==
    {<<lo, hi, lo_inc, hi_inc>> :
        <<lo, hi, lo_inc, hi_inc>> \in
            {g \in (0..MaxSmall) \X (0..MaxSmall) \X BOOLEAN \X BOOLEAN : g[1] <= g[2]}}
    \cup {<<lo, Inf, lo_inc, FALSE>> : <<lo, lo_inc>> \in (0..MaxSmall) \X BOOLEAN}

\* the transitions that leave x0
QueryTransitions == {"x0"} \X Events \X States

\* the clock values of the calls, in half units
QueryClocks == 0..(2 * MaxSmall + 2)

\* a constructed TFA, before a call of is_transition_enabled
InitQuery ==
    /\ Constructed(UpToTwo(QueryTransitions), QueryGuards, Resets, {{"x0"}})
    /\ NoCall
    /\ pc = "query"
    /\ zones = [state \in States |-> {}]
    /\ in_degree = [state \in States |-> 0]
    /\ L = <<>>
    /\ top_order = <<>>
    /\ all_bounds = Unset
    /\ za = Unset
    /\ nred = 0
    /\ mapping = Unset
    /\ ci_bounds = Unset
    /\ ci_intervals = Unset

\* a call is_transition_enabled(state, event, clock)
CallIsTransitionEnabled ==
    /\ pc = "query"
    /\ \E state \in {"x0", "x1"}, event \in Events, clock2 \in QueryClocks :
        /\ call' = <<state, event, clock2>>
        /\ enabled' = IsTransitionEnabled(state, event, clock2)
    /\ pc' = "query_enabled"
    /\ UNCHANGED <<tfaVars, kahnVars, all_bounds, za, nred, mapping, ci_bounds, ci_intervals, first_result, observerVars,
                   next_result, runVars>>

\* the call get_next_state(state, event, clock) with the same arguments
CallGetNextState ==
    /\ pc = "query_enabled"
    /\ next_result' = GetNextState(call[1], call[2], call[3])
    /\ pc' = "query_done"
    /\ UNCHANGED <<tfaVars, kahnVars, all_bounds, za, nred, mapping, ci_bounds, ci_intervals, first_result, observerVars,
                   call, enabled, runVars>>

NextQuery ==
    \/ CallIsTransitionEnabled
    \/ CallGetNextState

SpecQuery == InitQuery /\ [][NextQuery]_vars

\* membership of the clock value c (in half units) in the interval I, as the
\* data model states it
Contains(I, c2) ==
    /\ c2 > 2 * I[1] \/ (I[3] /\ c2 = 2 * I[1])
    /\ c2 < 2 * I[2] \/ (I[4] /\ c2 = 2 * I[2])

\* the transitions (x, e, q) whose guard contains c
EnabledTransitions(x, e, c2) ==
    {t \in Range(transitions) : t[1] = x /\ t[2] = e /\ Contains(timing[t], c2)}

\* C11: for every state x, event e and clock value c, get_next_state(x, e, c)
\* returns a result iff is_transition_enabled(x, e, c) is true, i.e. iff some
\* transition (x, e, q) has c in its guard under the open/closed endpoint
\* rules; the result (q, c') belongs to such a transition t, with
\* c' = lo(R(t)) when t resets the clock and c' = c otherwise.
C11_NextIffEnabled ==
    pc = "query_done" =>
        LET ts == EnabledTransitions(call[1], call[2], call[3])
        IN  /\ (next_result # None) <=> (enabled = TRUE)
            /\ (enabled = TRUE) <=> (ts # {})
            /\ next_result # None =>
                  \E t \in ts :
                      /\ next_result[1] = t[3]
                      /\ next_result[2] = IF reset[t] # None THEN 2 * reset[t][1]
                                          ELSE call[3]

\* a call that two transitions enable, answered by one that resets the clock
\* to another value
C11_Witness ==
    /\ pc = "query_done"
    /\ enabled = TRUE
    /\ next_result # None
    /\ next_result[2] # call[3]
    /\ Cardinality(EnabledTransitions(call[1], call[2], call[3])) = 2

----------------------------------------------------------------------------
(* Python floats (IEEE 754 binary64) in run                                *)
(*                                                                         *)
(* A float of magnitude below 2^19 that is a multiple of 2^-60 (every      *)
(* double of magnitude 2^-8 or more is one) is <<sign, mag>>: sign is 1 or *)
(* -1 and mag its magnitude in units of 2^-60, as four limbs to the base   *)
(* 2^20, the least significant first.  On these values + and - are exact   *)
(* up to the rounding to 53 significant bits, ties to even.                *)

LimbBase == 1048576     \* 2^20
LimbBits == 20
Mantissa == 53          \* significant bits of a double

MagZero == <<0, 0, 0, 0>>

MagAdd(a, b) ==
    LET s1 == a[1] + b[1]
        s2 == a[2] + b[2] + (s1 \div LimbBase)
        s3 == a[3] + b[3] + (s2 \div LimbBase)
        s4 == a[4] + b[4] + (s3 \div LimbBase)
    IN  <<s1 % LimbBase, s2 % LimbBase, s3 % LimbBase, s4 % LimbBase>>

\* a - b for a >= b
MagSub(a, b) ==
    LET d1 == a[1] - b[1]
        d2 == a[2] - b[2] + (d1 \div LimbBase)
        d3 == a[3] - b[3] + (d2 \div LimbBase)
        d4 == a[4] - b[4] + (d3 \div LimbBase)
    IN  <<d1 % LimbBase, d2 % LimbBase, d3 % LimbBase, d4 % LimbBase>>

MagLess(a, b) ==
    \E i \in 1..4 : a[i] < b[i] /\ \A j \in (i + 1)..4 : a[j] = b[j]

RECURSIVE BitLength(_)
BitLength(n) == IF n = 0 THEN 0 ELSE 1 + BitLength(n \div 2)

\* the number of significant bits of a
MagBitLength(a) ==
    IF a = MagZero THEN 0
    ELSE LET i == CHOOSE k \in 1..4 : a[k] # 0 /\ \A j \in (k + 1)..4 : a[j] = 0
         IN  LimbBits * (i - 1) + BitLength(a[i])

\* 2^d
MagPow2(d) ==
    LET limb(i) == IF i - 1 = d \div LimbBits THEN 2 ^ (d % LimbBits) ELSE 0
    IN  <<limb(1), limb(2), limb(3), limb(4)>>

\* a mod 2^d
MagLow(a, d) ==
    LET limb(i) == IF LimbBits * i <= d THEN a[i]
                   ELSE IF LimbBits * (i - 1) >= d THEN 0
                   ELSE a[i] % (2 ^ (d - LimbBits * (i - 1)))
    IN  <<limb(1), limb(2), limb(3), limb(4)>>

\* the bit of weight 2^d of a
MagBit(a, d) == (a[(d \div LimbBits) + 1] \div (2 ^ (d % LimbBits))) % 2

\* a rounded to Mantissa significant bits, ties to even
Round(a) ==
    LET d == MagBitLength(a) - Mantissa
    IN  IF d <= 0 THEN a
        ELSE LET low == MagLow(a, d)
                 half == MagPow2(d - 1)
                 down == MagSub(a, low)
             IN  IF MagLess(half, low) \/ (low = half /\ MagBit(a, d) = 1)
                 THEN MagAdd(down, MagPow2(d))
                 ELSE down

\* float(n) for a natural number n
FloatOfInt(n) == <<1, <<0, 0, 0, n>> >>

\* the float that the literal k/10 written in decimal denotes (0.5 for k = 5):
\* the double nearest to k/10
FloatOfTenths(k) ==
    LET q4 == k \div 10
        r4 == k % 10
        q3 == (r4 * LimbBase) \div 10
        r3 == (r4 * LimbBase) % 10
        q2 == (r3 * LimbBase) \div 10
        r2 == (r3 * LimbBase) % 10
        q1 == (r2 * LimbBase) \div 10
        r1 == (r2 * LimbBase) % 10
        sticky == IF r1 # 0 /\ q1 % 2 = 0 THEN 1 ELSE 0
    IN  <<1, Round(<<q1 + sticky, q2, q3, q4>>)>>

\* x + y
FloatAdd(x, y) ==
    IF x[1] = y[1] THEN <<x[1], Round(MagAdd(x[2], y[2]))>>
    ELSE IF x[2] = y[2] THEN <<1, MagZero>>
    ELSE IF MagLess(x[2], y[2]) THEN <<y[1], Round(MagSub(y[2], x[2]))>>
    ELSE <<x[1], Round(MagSub(x[2], y[2]))>>

\* x - y
FloatSub(x, y) ==
    FloatAdd(x, IF y[2] = MagZero THEN y ELSE <<0 - y[1], y[2]>>)

\* x < y
FloatLess(x, y) ==
    IF x[1] = y[1] THEN (IF x[1] = 1 THEN MagLess(x[2], y[2]) ELSE MagLess(y[2], x[2]))
    ELSE x[1] < y[1]

----------------------------------------------------------------------------
(* TimedFiniteAutomaton.run, with the clock and the timestamps as floats *)

\* _is_within_interval, for floats
IsWithinIntervalF(clk, interval) ==
    LET lower == interval[1]
        upper == interval[2]
        lower_ok == IF interval[3] THEN ~FloatLess(clk, lower) ELSE FloatLess(lower, clk)
        upper_ok == IF interval[4] THEN ~FloatLess(upper, clk) ELSE FloatLess(clk, upper)
    IN  lower_ok /\ upper_ok

\* is_transition_enabled, for floats
IsTransitionEnabledF(state, event, clk) ==
    \E i \in DOMAIN transitions :
        /\ transitions[i][1] = state
        /\ transitions[i][2] = event
        /\ IsWithinIntervalF(clk, timing[transitions[i]])

RECURSIVE FirstEnabledF(_, _, _, _)
\* the loop of get_next_state, for floats
FirstEnabledF(state, event, clk, ts) ==
    IF ts = <<>> THEN None
    ELSE LET t == Head(ts)
         IN  IF t[1] = state /\ t[2] = event /\ IsWithinIntervalF(clk, timing[t])
             THEN t
             ELSE FirstEnabledF(state, event, clk, Tail(ts))

\* get_next_state, for floats
GetNextStateF(state, event, clk) ==
    LET t == FirstEnabledF(state, event, clk, transitions)
    IN  IF t = None THEN None
        ELSE IF reset[t] # None THEN <<t[3], reset[t][1]>>
        ELSE <<t[3], clk>>

\* the interval (lo, hi, True, True) of two integers
ClosedInts(lo, hi) == <<FloatOfInt(lo), FloatOfInt(hi), TRUE, TRUE>>

\* the TFA of define_example1
Example1Transitions ==
    {<<"x0", <<"c">>, "x1">>, <<"x0", <<"b">>, "x2">>, <<"x1", <<"a">>, "x4">>,
     <<"x2", <<"c">>, "x3">>, <<"x3", <<"a">>, "x2">>, <<"x4", <<"b">>, "x3">>}

Example1Timing ==
    [t \in Example1Transitions |->
        CASE t = <<"x0", <<"c">>, "x1">> -> ClosedInts(1, 3)
          [] t = <<"x0", <<"b">>, "x2">> -> ClosedInts(0, 1)
          [] t = <<"x1", <<"a">>, "x4">> -> ClosedInts(1, 3)
          [] t = <<"x2", <<"c">>, "x3">> -> ClosedInts(1, 2)
          [] t = <<"x3", <<"a">>, "x2">> -> ClosedInts(0, 2)
          [] t = <<"x4", <<"b">>, "x3">> -> ClosedInts(0, 1)]

Example1Reset ==
    [t \in Example1Transitions |->
        CASE t = <<"x0", <<"c">>, "x1">> -> ClosedInts(1, 1)
          [] t = <<"x1", <<"a">>, "x4">> -> ClosedInts(0, 1)
          [] t = <<"x3", <<"a">>, "x2">> -> ClosedInts(0, 0)
          [] t = <<"x4", <<"b">>, "x3">> -> ClosedInts(0, 0)
          [] OTHER -> None]

\* event_sequence of main: [("b", 0.5), ("c", 2), ("a", 2)]
MainEventSequence ==
    <<  <<<<"b">>, FloatOfTenths(5)>>, <<<<"c">>, FloatOfInt(2)>>,
        <<<<"a">>, FloatOfInt(2)>>  >>

\* the timestamps and guard endpoints of the small runs, in tenths:
\* 0, 0.2 and 0.9
RunTenths == {0, 2, 9}

\* the guards [lo, hi] with endpoints among RunTenths
RunGuards ==
    {<<FloatOfTenths(b[1]), FloatOfTenths(b[2]), TRUE, TRUE>> :
        b \in {c \in RunTenths \X RunTenths : c[1] <= c[2]}}

\* no reset, or the reset interval [1, 1]
RunResets == {None, ClosedInts(1, 1)}

\* the transitions on a that leave x0 or x1
RunTransitions == {"x0", "x1"} \X {<<"a">>} \X States

\* the sequences of at most two events a with timestamps among RunTenths
RunSequences ==
    LET E == {<<<<"a">>, FloatOfTenths(k)>> : k \in RunTenths}
    IN  {<<>>} \cup {<<e>> : e \in E} \cup {<<e[1], e[2]>> : e \in E \X E}

\* the TFA-independent part of the state at a call of run
RunIdle ==
    /\ call = Unset
    /\ enabled = Unset
    /\ next_result = Unset
    /\ clock = Unset
    /\ run_pos = 0
    /\ result = Unset
    /\ first_result = Unset
    /\ observer = Unset
    /\ obs_queue = Unset
    /\ pc = "run"
    /\ initial_states = {"x0"}
    /\ zones = [state \in States |-> {}]
    /\ in_degree = [state \in States |-> 0]
    /\ L = <<>>
    /\ top_order = <<>>
    /\ all_bounds = Unset
    /\ za = Unset
    /\ nred = 0
    /\ mapping = Unset
    /\ ci_bounds = Unset
    /\ ci_intervals = Unset

\* a call run(initial_state, event_sequence): of main on the TFA of
\* define_example1, or on a TFA of at most two transitions
InitRun ==
    /\ RunIdle
    /\ \/ /\ events = {<<"a">>, <<"b">>, <<"c">>}
          /\ transitions \in Orders(Example1Transitions)
          /\ timing = Example1Timing
          /\ reset = Example1Reset
          /\ current_state = "x0"
          /\ event_sequence = MainEventSequence
       \/ /\ events = Events
          /\ transitions \in TransitionOrders(UpToTwo(RunTransitions))
          /\ timing \in [Range(transitions) -> RunGuards]
          /\ reset \in [Range(transitions) -> RunResets]
          /\ current_state = "x0"
          /\ event_sequence \in RunSequences

\* run, up to its loop
RunBegin ==
    /\ pc = "run"
    /\ clock' = FloatOfInt(0)
    /\ pc' = "run_loop"
    /\ UNCHANGED <<tfaVars, kahnVars, all_bounds, za, nred, mapping, ci_bounds, ci_intervals, first_result, observerVars,
                   callVars, current_state, event_sequence, run_pos, result>>

\* one iteration of the loop of run
RunStep ==
    /\ pc = "run_loop"
    /\ run_pos < Len(event_sequence)
    /\ LET event == event_sequence[run_pos + 1][1]
           timestamp == event_sequence[run_pos + 1][2]
           elapsed_time == FloatSub(timestamp, clock)
           clock1 == FloatAdd(clock, elapsed_time)
           r == GetNextStateF(current_state, event, clock1)
       IN  /\ call' = <<current_state, event, clock1>>
           /\ next_result' = r
           /\ run_pos' = run_pos + 1
           /\ IF r = None
              THEN /\ result' = None
                   /\ clock' = clock1
                   /\ pc' = "run_done"
                   /\ UNCHANGED current_state
              ELSE /\ current_state' = r[1]
                   /\ clock' = r[2]
                   /\ UNCHANGED <<result, pc>>
    /\ UNCHANGED <<tfaVars, kahnVars, all_bounds, za, nred, mapping, ci_bounds, ci_intervals, first_result, observerVars,
                   enabled, event_sequence>>

\* the return of run after the loop
RunReturn ==
    /\ pc = "run_loop"
    /\ run_pos = Len(event_sequence)
    /\ result' = <<current_state, clock>>
    /\ pc' = "run_done"
    /\ UNCHANGED <<tfaVars, kahnVars, all_bounds, za, nred, mapping, ci_bounds, ci_intervals, first_result, observerVars,
                   callVars, current_state, clock, event_sequence, run_pos>>

NextRun ==
    \/ RunBegin
    \/ RunStep
    \/ RunReturn

SpecRun == InitRun /\ [][NextRun]_vars

\* the transitions that leave state x on event e and whose guard contains
\* the float c
EnabledAt(x, e, c) ==
    {t \in Range(transitions) :
        /\ t[1] = x
        /\ t[2] = e
        /\ LET I == timing[t]
           IN  /\ FloatLess(I[1], c) \/ (I[3] /\ c = I[1])
               /\ FloatLess(c, I[2]) \/ (I[4] /\ c = I[2])}

\* the last call of get_next_state was made with the clock value exactly the
\* timestamp of its step
RunClockIsTimestamp ==
    (pc \in {"run_loop", "run_done"} /\ run_pos >= 1) =>
        /\ call[2] = event_sequence[run_pos][1]
        /\ call[3] = event_sequence[run_pos][2]

\* run returns None exactly at a step whose (state, event, timestamp) is
\* disabled, and goes on with a successor otherwise
RunStopsAtFirstDisabled ==
    (pc \in {"run_loop", "run_done"} /\ run_pos >= 1) =>
        LET ts == EnabledAt(call[1], event_sequence[run_pos][1], event_sequence[run_pos][2])
        IN  IF ts = {}
            THEN pc = "run_done" /\ result = None
            ELSE \E t \in ts :
                    /\ current_state = t[3]
                    /\ clock = IF reset[t] # None THEN reset[t][1]
                               ELSE event_sequence[run_pos][2]
                    /\ pc = "run_done" => result = <<current_state, clock>>

\* a result other than None is returned after the last event, and is the state
\* and the clock of the last step
RunReturnsLast ==
    (pc = "run_done" /\ result # None) =>
        /\ run_pos = Len(event_sequence)
        /\ result = <<current_state, clock>>
        /\ run_pos >= 1 => result = next_result

\* the call of main returns ("x2", 0.0)
RunOfMain ==
    (pc = "run_done" /\ Range(transitions) = Example1Transitions) =>
        result = <<"x2", FloatOfInt(0)>>

\* C12: run starts with clock 0 and, at each step i, applies get_next_state to
\* the current state, e_i and the clock value exactly tau_i, whatever a reset
\* left in the clock; it returns None at the first step whose (state, event,
\* clock) triple is disabled, without processing later events, and otherwise
\* the state and clock of the last step.  On the five-state example,
\* run("x0", [("b",0.5),("c",2),("a",2)]) returns ("x2", 0.0).
C12_Run ==
    /\ pc = "run_loop" /\ run_pos = 0 => clock = FloatOfInt(0)
    /\ RunClockIsTimestamp
    /\ RunStopsAtFirstDisabled
    /\ RunReturnsLast
    /\ RunOfMain

----------------------------------------------------------------------------
(* Two constructions from the same TFA *)

\* from_timed_automaton is called again on the same TFA; its sets may be
\* iterated in another order than in the first construction
ConstructAgain ==
    /\ pc = "zone"
    /\ first_result = Unset
    /\ first_result' = <<all_bounds, za>>
    /\ transitions' \in Orders(Range(transitions))
    /\ pc' = "start"
    /\ zones' = [state \in States |-> {}]
    /\ in_degree' = [state \in States |-> 0]
    /\ L' = <<>>
    /\ top_order' = <<>>
    /\ all_bounds' = Unset
    /\ za' = Unset
    /\ UNCHANGED <<events, timing, reset, initial_states, nred, mapping, ci_bounds,
                   ci_intervals,
                   callVars, runVars, observerVars>>

\* the transitions on a that leave x0 or x1, and those on b that leave x0
TwiceTransitions == ({"x0", "x1"} \X {<<"a">>} \X States) \cup ({"x0"} \X {<<"b">>} \X States)

InitTwice == InitWith(UpToTwo(TwiceTransitions), Guards, Resets, {{"x0"}})

NextTwice ==
    \/ LocalBounds
    \/ KahnInit
    \/ KahnStep
    \/ Propagate
    \/ BuildZoneAutomaton
    \/ ConstructAgain

SpecTwice == InitTwice /\ [][NextTwice]_vars

\* the bound map of the second construction is that of the first
SameBounds ==
    (first_result # Unset /\ pc \in {"bounds", "zone"}) => all_bounds = first_result[1]

\* C13: for a fixed TFA, the bound map of compute_all_zones and the zone
\* automaton (V, Delta_z, V_0) of from_timed_automaton are the same for every
\* order in which the sets of states, events and transitions are iterated:
\* two constructions from the same TFA give identical results.
C13_Deterministic ==
    /\ SameBounds
    /\ (first_result # Unset /\ pc = "zone") =>
          /\ za.states = first_result[2].states
          /\ za.transitions = first_result[2].transitions
          /\ za.initial_states = first_result[2].initial_states

----------------------------------------------------------------------------
(* reduce_states and reachability *)

RECURSIVE ReachableExtended(_, _)
\* the extended states reachable from those of S along the transitions of A
ReachableExtended(A, S) ==
    LET more == S \cup {t[3] : t \in {u \in A.transitions : u[1] \in S}}
    IN  IF more = S THEN S ELSE ReachableExtended(A, more)

\* the discrete states that are not initial and have no incoming transition
Unreachable ==
    {x \in States : x \notin initial_states /\ \A t \in Range(transitions) : t[3] # x}

\* C14: the automaton returned by reduce_states contains only extended states
\* reachable from its initial extended states along its transitions, and only
\* transitions whose two endpoints are such states; in particular no extended
\* state remains whose discrete state is not initial and has no incoming
\* transition.
C14_OnlyReachable ==
    (pc = "zone" /\ nred >= 1) =>
        LET reach == ReachableExtended(za, za.initial_states)
        IN  /\ za.states \subseteq reach
            /\ \A t \in za.transitions : t[1] \in reach /\ t[3] \in reach
            /\ \A v \in za.states : v[1] \notin Unreachable

\* C15: reduce_states is idempotent: for every zone automaton A produced by
\* from_timed_automaton, reduce_states applied to reduce_states(A) returns an
\* automaton with the same states, transitions, events and initial states as
\* reduce_states(A).
C15_Idempotent ==
    [][(pc = "zone" /\ nred = 1 /\ nred' = 2) =>
          /\ za'.states = za.states
          /\ za'.transitions = za.transitions
          /\ za'.events = za.events
          /\ za'.initial_states = za.initial_states]_vars

----------------------------------------------------------------------------
(* The observer automaton of a zone automaton (observer builder) *)

\* an event is unobservable iff its label begins with '(' and ends with ')'
IsUnobservable(e) == e # <<>> /\ e[1] = "(" /\ e[Len(e)] = ")"

\* the targets of the unobservable transitions of A that leave v
UnobservableSuccessors(A, v) ==
    {t[3] : t \in {u \in A.transitions : u[1] = v /\ IsUnobservable(u[2])}}

\* UnobservableClosure that takes one step only
OneStepClosure(A, U) == U \cup UNION {UnobservableSuccessors(A, v) : v \in U}

RECURSIVE ClosureFrom(_, _, _)
\* the work-list loop of the unobservable-closure: closed holds the states
\* found so far, stack those still to expand
ClosureFrom(A, closed, stack) ==
    IF stack = <<>> THEN closed
    ELSE LET new == UnobservableSuccessors(A, Head(stack)) \ closed
         IN  ClosureFrom(A, closed \cup new,
                         Tail(stack) \o (CHOOSE o \in Orders(new) : TRUE))

\* the unobservable-closure of the set U of extended states of A
UnobservableClosure(A, U) == ClosureFrom(A, U, CHOOSE o \in Orders(U) : TRUE)

\* the observable events of A (the time-advance labels are observable)
ObservableEvents(A) == {e \in A.events : ~IsUnobservable(e)}

\* succ = {q : v in s, (v, e, q) in Delta_z}
ObserverSuccessors(A, s, e) ==
    {t[3] : t \in {u \in A.transitions : u[1] \in s /\ u[2] = e}}

\* the observer transitions found from the observer state s
ObserverEdges(A, s) ==
    {<<s, e, UnobservableClosure(A, ObserverSuccessors(A, s, e))>> :
        e \in {f \in ObservableEvents(A) : ObserverSuccessors(A, s, f) # {}}}

\* the observable event a and the unobservable event (u)
ObserverEvents == {<<"a">>, <<"(", "u", ")">>}

\* the closed guards with endpoints up to MaxSmall
ObserverGuards == {g \in Guards : g[2] <= MaxSmall}

InitObserver ==
    /\ events = ObserverEvents
    /\ transitions \in TransitionOrders(UpToTwo(States \X ObserverEvents \X States))
    /\ timing \in [Range(transitions) -> ObserverGuards]
    /\ reset \in [Range(transitions) -> Resets]
    /\ initial_states = {"x0"}
    /\ NoCall
    /\ pc = "start"
    /\ zones = [state \in States |-> {}]
    /\ in_degree = [state \in States |-> 0]
    /\ L = <<>>
    /\ top_order = <<>>
    /\ all_bounds = Unset
    /\ za = Unset
    /\ nred = 0
    /\ mapping = Unset
    /\ ci_bounds = Unset
    /\ ci_intervals = Unset

\* step 1 of the construction: s_0 = closure(V_0), S = {s_0}, queue = [s_0]
ObserverBegin ==
    /\ pc = "zone"
    /\ LET s_0 == UnobservableClosure(za, za.initial_states)
       IN  /\ observer' = [states |-> {s_0},
                           events |-> ObservableEvents(za),
                           transitions |-> {},
                           initial_state |-> s_0]
           /\ obs_queue' = <<s_0>>
    /\ pc' = "observer"
    /\ UNCHANGED <<tfaVars, kahnVars, all_bounds, za, nred, mapping, ci_bounds, ci_intervals,
                   callVars, runVars, first_result>>

\* step 2: one observer state is popped and its successors are added
ObserverStep ==
    /\ pc = "observer"
    /\ obs_queue # <<>>
    /\ LET s == Head(obs_queue)
           edges == ObserverEdges(za, s)
           new == {t[3] : t \in edges} \ observer.states
       IN  /\ observer' = [observer EXCEPT !.states = @ \cup new,
                                           !.transitions = @ \cup edges]
           /\ \E o \in Orders(new) : obs_queue' = Tail(obs_queue) \o o
    /\ UNCHANGED <<tfaVars, kahnVars, pc, all_bounds, za, nred, mapping, ci_bounds, ci_intervals,
                   callVars, runVars, first_result>>

\* the queue is empty: the observer is returned
ObserverReturn ==
    /\ pc = "observer"
    /\ obs_queue = <<>>
    /\ pc' = "observer_done"
    /\ UNCHANGED <<tfaVars, kahnVars, all_bounds, za, nred, helperVars>>

NextObserver ==
    \/ LocalBounds
    \/ KahnInit
    \/ KahnStep
    \/ Propagate
    \/ BuildZoneAutomaton
    \/ ObserverBegin
    \/ ObserverStep
    \/ ObserverReturn

SpecObserver == InitObserver /\ [][NextObserver]_vars

\* C16: every state s of the observer built from a zone automaton, the initial
\* state closure(V_0) included, equals its own unobservable-closure: whenever
\* v is in s and (v, e, q) is a transition of the zone automaton whose label
\* begins with '(' and ends with ')', q is also in s.
C16_ObserverStatesClosed ==
    pc \in {"observer", "observer_done"} =>
        \A s \in observer.states \cup {observer.initial_state} :
            \A t \in za.transitions :
                (t[1] \in s /\ t[2] # <<>> /\ t[2][1] = "(" /\ t[2][Len(t[2])] = ")")
                    => t[3] \in s

\* a returned observer with a state, not the initial one, that holds the
\* source and the distinct target of an unobservable transition, the target
\* having been reached through a second unobservable transition or directly
C16_Witness ==
    /\ pc = "observer_done"
    /\ \E s \in observer.states \ {observer.initial_state} :
          \E t \in za.transitions :
              /\ t[2] = <<"(", "u", ")">>
              /\ t[1] \in s
              /\ t[3] \in s
              /\ t[1] # t[3]

----------------------------------------------------------------------------
(* The mapping of reduce_states *)

\* the clock values of the zone Z, among the multiples of 0.5 up to
\* MaxSmall + 1
ZoneValues(Z) == {c2 \in 0..(2 * MaxSmall + 2) : Contains(Z, c2)}

\* the extended state w covers the extended state v
CoversState(w, v) == w[1] = v[1] /\ ZoneValues(v[2]) \subseteq ZoneValues(w[2])

\* the value of mapping' for the key v
Mapped(v) == (CHOOSE m \in mapping' : m[1] = v)[2]

\* C17: reduce_states maps every original extended state (x, Z) to a new
\* extended state (x, Z') that covers it (Z is a subset of Z' as sets of clock
\* values), and an extended state that was not merged with another to itself;
\* so every original transition (src, label, dst) is carried to a transition
\* between the states covering src and dst, and no retained state loses its
\* own incoming or outgoing transitions to a different state.
C17_MappingCovers ==
    [][(pc = "zone" /\ nred' = nred + 1) =>
          /\ \A v \in za.states :
                /\ \E m \in mapping' : m[1] = v
                /\ Mapped(v) \in za'.states
                /\ CoversState(Mapped(v), v)
                /\ v \in za'.states => Mapped(v) = v
          /\ \A t \in za.transitions :
                \E u \in za'.transitions :
                    /\ u[2] = t[2]
                    /\ CoversState(u[1], t[1])
                    /\ CoversState(u[3], t[3])
                    /\ t[1] \in za'.states => u[1] = t[1]
                    /\ t[3] \in za'.states => u[3] = t[3]]_vars

----------------------------------------------------------------------------
(* The representative time of a zone *)

\* the clock values of the zone Z, among the multiples of 0.5 up to
\* MaxBound + 1: one for each bound and one between any two of them
ZoneClocks(Z) == {c2 \in 0..(2 * MaxBound + 2) : Contains(Z, c2)}

\* the extended state (x, Z) has an outgoing edge on the logical event e
HasEventEdge(x, Z, e) ==
    \E t \in za.transitions : t[1] = <<x, Z>> /\ t[2] = e

\* is_transition_enabled(x, e, c) is the same for every clock value c of Z,
\* and equal to its value at the representative time of Z
UniformOn(x, Z, e) ==
    \A c2 \in ZoneClocks(Z) :
        IsTransitionEnabled(x, e, c2) = IsTransitionEnabled(x, e, RepTime2(Z))

\* (x, Z) has an e-edge iff e is enabled at x for every clock value of Z
EdgeIffEnabled(x, Z, e) ==
    HasEventEdge(x, Z, e) <=> \A c2 \in ZoneClocks(Z) : IsTransitionEnabled(x, e, c2)

\* the first half of C18 on its own
RepTimeUniform ==
    (pc = "zone" /\ nred = 0) =>
        \A x \in States : \A e \in events :
            \A i \in DOMAIN EnumeratedZones(x) : UniformOn(x, EnumeratedZones(x)[i], e)

\* C18 for the zones whose lower endpoint is finite
RepTimeSoundFinite ==
    (pc = "zone" /\ nred = 0) =>
        \A x \in States : \A e \in events :
            \A i \in DOMAIN EnumeratedZones(x) :
                LET Z == EnumeratedZones(x)[i]
                IN  Z[1] # Inf => UniformOn(x, Z, e) /\ EdgeIffEnabled(x, Z, e)

\* C18: the representative time is sound for the zone it stands for: for
\* every extended state (x, Z) enumerated from the bounds of
\* compute_all_zones and every logical event e, is_transition_enabled(x, e, c)
\* has the same value for every clock value c of Z, equal to its value at the
\* representative time of Z; so (x, Z) has an outgoing e-edge iff e is enabled
\* at x for every clock value of Z.
C18_RepTimeSound ==
    (pc = "zone" /\ nred = 0) =>
        \A x \in States : \A e \in events :
            \A i \in DOMAIN EnumeratedZones(x) :
                LET Z == EnumeratedZones(x)[i]
                IN  UniformOn(x, Z, e) /\ EdgeIffEnabled(x, Z, e)

====
